---- MODULE Spec2Model ----
(***************************************************************************)
(* State-machine model of src/bot.py: the per-user staging area            *)
(* (context.user_data), the three handlers handle_image, handle_document   *)
(* and button_callback, the temporary files they create and delete, and    *)
(* the Statistics object shared by every handler.                          *)
(*                                                                         *)
(* Handlers are coroutines on one event loop.  A handler runs without      *)
(* interruption from one await to the next; every action below is one      *)
(* such section.  Each running handler has a frame that holds its locals.  *)
(* The variable running names the frame whose handler holds the loop       *)
(* inside a section that spans several actions (the per-item loop of       *)
(* button_callback), so that no other handler is scheduled inside it.      *)
(***************************************************************************)
EXTENDS Integers, Sequences, FiniteSets, TLC

(***************************************************************************)
(* Bounds of the model.                                                    *)
(***************************************************************************)
\* photos and archive members received over a whole run, all users together
MaxStaged == 2
\* format buttons pressed over a whole run, all users together
MaxPress == 2
\* last value of the wall clock
MaxClock == 4
\* calls of update_conversion_stats when it is explored on its own
MaxRecords == 3
\* transport calls and statistics writes that fail over a whole run
MaxFaults == 1
\* wall-clock ticks in a calendar day, calendar days in a month
TicksPerDay == 2
DaysPerMonth == 2

Users == {"u1", "u2"}

\* The frames of the handlers in flight.  A user has one frame, named after
\* the user; the first user has a second one for a handler that starts while
\* another handler of that user is suspended at an await.
Frames == Users \cup {"u1+"}

\* the user whose context.user_data the handler of a frame works on
Owner(u) == IF u \in Users THEN u ELSE "u1"

None == "None"

(***************************************************************************)
(* Strings the code inspects are sequences of characters.                  *)
(***************************************************************************)
UpperLetters ==
  <<"A","B","C","D","E","F","G","H","I","J","K","L","M",
    "N","O","P","Q","R","S","T","U","V","W","X","Y","Z">>
LowerLetters ==
  <<"a","b","c","d","e","f","g","h","i","j","k","l","m",
    "n","o","p","q","r","s","t","u","v","w","x","y","z">>

\* str.lower() on one character
LowerChar(c) ==
  IF \E k \in 1..26 : UpperLetters[k] = c
    THEN LowerLetters[CHOOSE k \in 1..26 : UpperLetters[k] = c]
    ELSE c

\* str.upper() on one character
UpperChar(c) ==
  IF \E k \in 1..26 : LowerLetters[k] = c
    THEN UpperLetters[CHOOSE k \in 1..26 : LowerLetters[k] = c]
    ELSE c

Lower(s) == [k \in 1..Len(s) |-> LowerChar(s[k])]
Upper(s) == [k \in 1..Len(s) |-> UpperChar(s[k])]

\* str.endswith
EndsWith(s, suf) ==
  /\ Len(s) >= Len(suf)
  /\ SubSeq(s, Len(s) - Len(suf) + 1, Len(s)) = suf

(***************************************************************************)
(* SUPPORTED_FORMATS: target format -> extension.                          *)
(***************************************************************************)
JPEG == <<"J","P","E","G">>
PNG  == <<"P","N","G">>
WEBP == <<"W","E","B","P">>
GIF  == <<"G","I","F">>
TIFF == <<"T","I","F","F">>
BMP  == <<"B","M","P">>
AVIF == <<"A","V","I","F">>

FormatNames == {JPEG, PNG, WEBP, GIF, TIFF, BMP, AVIF}

SUPPORTED_FORMATS(f) ==
  CASE f = JPEG -> <<".","j","p","g">>
    [] f = PNG  -> <<".","p","n","g">>
    [] f = WEBP -> <<".","w","e","b","p">>
    [] f = GIF  -> <<".","g","i","f">>
    [] f = TIFF -> <<".","t","i","f","f">>
    [] f = BMP  -> <<".","b","m","p">>
    [] f = AVIF -> <<".","a","v","i","f">>

\* the extensions handle_document accepts
ImageExtensions ==
  { <<".","j","p","g">>, <<".","j","p","e","g">>, <<".","p","n","g">>,
    <<".","w","e","b","p">>, <<".","g","i","f">>, <<".","t","i","f","f">>,
    <<".","b","m","p">>, <<".","a","v","i","f">> }

\* any(filename_in_zip.lower().endswith(ext) for ext in [...])
HasImageExtension(name) ==
  \E ext \in ImageExtensions : EndsWith(Lower(name), ext)

\* callback_data=f"convert_{format_name.lower()}"
callback_data(f) == <<"c","o","n","v","e","r","t","_">> \o Lower(f)

\* str.split('_'): the pieces of s between underscores
RECURSIVE SplitUnderscore(_)
SplitUnderscore(s) ==
  IF \A k \in 1..Len(s) : s[k] /= "_"
    THEN <<s>>
    ELSE LET k == CHOOSE j \in 1..Len(s) :
                    s[j] = "_" /\ \A h \in 1..(j-1) : s[h] /= "_"
         IN  <<SubSeq(s, 1, k - 1)>> \o SplitUnderscore(SubSeq(s, k + 1, Len(s)))

\* query.data.split('_')[1].upper()
target_format_of(data) == Upper(SplitUnderscore(data)[2])

(***************************************************************************)
(* Finite maps: dictionaries and the temporary directory.                  *)
(***************************************************************************)
EmptyMap == [x \in {} |-> 0]
Put(f, k, v) == [x \in (DOMAIN f) \cup {k} |-> IF x = k THEN v ELSE f[x]]
Del(f, k) == [x \in (DOMAIN f) \ {k} |-> f[x]]
\* os.unlink of every path of ks that exists
DelAll(f, ks) == [x \in (DOMAIN f) \ ks |-> f[x]]

RECURSIVE SumSeq(_)
SumSeq(s) == IF s = <<>> THEN 0 ELSE s[1] + SumSeq(Tail(s))

RECURSIVE SumMap(_)
SumMap(f) ==
  IF DOMAIN f = {} THEN 0
  ELSE LET k == CHOOSE x \in DOMAIN f : TRUE IN f[k] + SumMap(Del(f, k))

(***************************************************************************)
(* The bytes of a file: its length, whether Image.open accepts it, and the *)
(* colour mode Image.open reports.                                         *)
(***************************************************************************)
Bytes(n, d, m) == [size |-> n, dec |-> d, mode |-> m]

\* Pillow colour modes
Modes == {"1", "L", "P", "RGB", "RGBA", "CMYK", "YCbCr", "LAB", "HSV",
          "I", "F", "LA", "PA", "RGBX", "RGBa", "La"}
AlphaModes == {"RGBA", "LA", "PA", "RGBa", "La"}
PaletteModes == {"P", "PA"}

(***************************************************************************)
(* Image mode conversion logic of button_callback: the mode of the image   *)
(* handed to img.save for a target format and the mode Image.open found.   *)
(***************************************************************************)
\* a logic that also turns a palette into RGBA for the targets that are
\* neither PNG nor GIF
NormalizeModePalette(target_format, mode) ==
  IF target_format = JPEG /\ mode \in {"RGBA", "P"} THEN "RGB"
  ELSE IF target_format = WEBP /\ mode \notin {"RGB", "RGBA"} THEN "RGBA"
  ELSE IF target_format = AVIF /\ mode \notin {"RGB", "RGBA"} THEN "RGBA"
  ELSE IF mode = "P" /\ target_format \notin {PNG, GIF} THEN "RGBA"
  ELSE mode

NormalizeMode(target_format, mode) ==
  IF target_format = JPEG /\ mode \in {"RGBA", "P"} THEN "RGB"
  ELSE IF target_format = WEBP /\ mode \notin {"RGB", "RGBA"} THEN "RGBA"
  ELSE IF target_format = AVIF /\ mode \notin {"RGB", "RGBA"} THEN "RGBA"
  ELSE mode

(***************************************************************************)
(* Wall clock: datetime.now().strftime(...) at the three resolutions the   *)
(* code uses.                                                              *)
(***************************************************************************)
\* '%Y-%m-%d'
Today(t) == t \div TicksPerDay
\* '%Y-%m'
Month(t) == (t \div TicksPerDay) \div DaysPerMonth
\* '%Y%m%d_%H%M%S'
Stamp(t) == t

(***************************************************************************)
(* class Statistics                                                        *)
(***************************************************************************)
\* the structure load_stats returns when there is no statistics file
ZeroStats ==
  [ total_images |-> 0,
    total_size_original |-> 0,
    total_size_converted |-> 0,
    conversions_by_format |-> EmptyMap,
    daily_stats |-> EmptyMap,
    monthly_stats |-> EmptyMap ]

ZeroPeriod == [images |-> 0, size_original |-> 0, size_converted |-> 0]

\* a period entry written anew on every call instead of accumulated
BumpPeriodAnew(d, key, original_size, converted_size) ==
  Put(d, key,
      [ images |-> 1,
        size_original |-> original_size,
        size_converted |-> converted_size ])

\* one period entry after the three += of update_conversion_stats
BumpPeriod(d, key, original_size, converted_size) ==
  LET cur == IF key \in DOMAIN d THEN d[key] ELSE ZeroPeriod
  IN  Put(d, key,
          [ images |-> cur.images + 1,
            size_original |-> cur.size_original + original_size,
            size_converted |-> cur.size_converted + converted_size ])

\* an update that counts an image only when it has bytes
update_conversion_stats_nonzero(st, original_size, converted_size, target_format, today, month) ==
  LET cbf == st.conversions_by_format
      old == IF target_format \in DOMAIN cbf THEN cbf[target_format] ELSE 0
      n == IF original_size > 0 THEN 1 ELSE 0
  IN  [ total_images |-> st.total_images + n,
        total_size_original |-> st.total_size_original + original_size,
        total_size_converted |-> st.total_size_converted + converted_size,
        conversions_by_format |-> Put(cbf, target_format, old + n),
        daily_stats |-> BumpPeriod(st.daily_stats, today, original_size, converted_size),
        monthly_stats |-> BumpPeriod(st.monthly_stats, month, original_size, converted_size) ]

\* an update that writes the totals back from the zeroed structure read at
\* start-up instead of from the counters in memory: the earlier updates are
\* lost
update_conversion_stats_stale(st, original_size, converted_size, target_format, today, month) ==
  LET cbf == st.conversions_by_format
      old == IF target_format \in DOMAIN cbf THEN cbf[target_format] ELSE 0
  IN  [ total_images |-> ZeroStats.total_images + 1,
        total_size_original |-> ZeroStats.total_size_original + original_size,
        total_size_converted |-> ZeroStats.total_size_converted + converted_size,
        conversions_by_format |-> Put(cbf, target_format, old + 1),
        daily_stats |-> Put(st.daily_stats, today,
                            [ZeroPeriod EXCEPT !.images = 1]),
        monthly_stats |-> Put(st.monthly_stats, month,
                              [ZeroPeriod EXCEPT !.images = 1]) ]

\* the in-memory part of update_conversion_stats; today and month are the
\* two strftime results
update_conversion_stats(st, original_size, converted_size, target_format, today, month) ==
  LET cbf == st.conversions_by_format
      old == IF target_format \in DOMAIN cbf THEN cbf[target_format] ELSE 0
  IN  [ total_images |-> st.total_images + 1,
        total_size_original |-> st.total_size_original + original_size,
        total_size_converted |-> st.total_size_converted + converted_size,
        conversions_by_format |-> Put(cbf, target_format, old + 1),
        daily_stats |-> BumpPeriod(st.daily_stats, today, original_size, converted_size),
        monthly_stats |-> BumpPeriod(st.monthly_stats, month, original_size, converted_size) ]

\* the statistics file: absent, or holding a structure, or left truncated by
\* a write that failed after open(STATS_FILE, 'w')
NoFile == [state |-> "absent", data |-> ZeroStats]
Truncated == [state |-> "truncated", data |-> ZeroStats]

\* load_stats: the structure of the file when it is there and readable, the
\* zeroed structure otherwise
load_stats(file) ==
  IF file.state = "written" THEN file.data ELSE ZeroStats

\* the statistics of an earlier run that converted one image
EarlierStats ==
  update_conversion_stats(ZeroStats, 3, 1, WEBP, 0, 0)

\* what bot_statistics.json may be when the module is loaded: absent,
\* unreadable, or written by an earlier run
StatsFiles ==
  { NoFile, Truncated, [state |-> "written", data |-> EarlierStats] }

\* a save_stats without its except clause: the error of a failed write is
\* logged and leaves the method
save_stats_raising(st, file, io) ==
  CASE io = "ok"       -> [file |-> [state |-> "written", data |-> st],
                           logged |-> FALSE, raised |-> FALSE]
    [] io = "no_open"  -> [file |-> file, logged |-> TRUE, raised |-> TRUE]
    [] io = "no_write" -> [file |-> Truncated, logged |-> TRUE, raised |-> TRUE]

\* a save_stats that leaves the file for later
save_stats_deferred(st, file, io) ==
  [file |-> file, logged |-> FALSE, raised |-> FALSE]

\* save_stats: io is what the file system does to the write.  The result is
\* the file afterwards, whether an error was logged, and whether an
\* exception leaves save_stats (none does: the except clause catches all).
save_stats(st, file, io) ==
  CASE io = "ok"       -> [file |-> [state |-> "written", data |-> st],
                           logged |-> FALSE, raised |-> FALSE]
    [] io = "no_open"  -> [file |-> file, logged |-> TRUE, raised |-> FALSE]
    [] io = "no_write" -> [file |-> Truncated, logged |-> TRUE, raised |-> FALSE]

IoOutcomes == {"ok", "no_open", "no_write"}

(***************************************************************************)
(* Pillow's JPEG encoder writes these modes and raises OSError ("cannot    *)
(* write mode ... as JPEG") on every other one; img.save may also fail for *)
(* reasons of its own on any input.                                        *)
(***************************************************************************)
EncoderAccepts(target_format, mode) ==
  target_format = JPEG => mode \in {"1", "L", "RGB", "RGBX", "CMYK", "YCbCr"}

\* os.path.splitext(original_filename)[0]: the name up to its last dot,
\* when that dot follows a character of the last path component that is
\* not a dot
SplitExtBase(name) ==
  LET n == Len(name)
      start == IF \E k \in 1..n : name[k] = "/"
                 THEN 1 + CHOOSE k \in 1..n :
                        name[k] = "/" /\ \A h \in (k+1)..n : name[h] /= "/"
                 ELSE 1
      dots == {k \in start..n : name[k] = "."}
      last == CHOOSE k \in dots : \A h \in dots : h <= k
  IN  IF dots /= {} /\ (\E h \in start..(last - 1) : name[h] /= ".")
        THEN SubSeq(name, 1, last - 1)
        ELSE name

\* filename_in_zip = f"{base}{SUPPORTED_FORMATS[target_format]}"
filename_in_zip(original_filename, target_format) ==
  SplitExtBase(original_filename) \o SUPPORTED_FORMATS(target_format)

\* 'pending_images' in context.user_data and context.user_data['pending_images']
HasPending(ud) == ud.has /\ ud.pending_images /= <<>>

\* an archive built whether or not anything was converted
ShouldPackAlways(converted_files_paths) == TRUE

\* if converted_files_paths:
ShouldPack(converted_files_paths) == converted_files_paths /= <<>>

\* successfully_converted_count % 5 == 0 or
\* successfully_converted_count == len(pending_files_data)
ProgressDue(count, total) == count % 5 = 0 \/ count = total

(***************************************************************************)
(* Inputs.                                                                 *)
(***************************************************************************)
Str_a_png  == <<"a",".","p","n","g">>
Str_b_JPG  == <<"b",".","J","P","G">>
Str_c_txt  == <<"c",".","t","x","t">>
Str_d      == <<"d","/">>
Str_d_e    == <<"d","/","e",".","j","p","g">>
Str_f_gif  == <<"f",".","g","i","f">>
Str_g      == <<"g",".","j","p","e","g",".","b","a","k">>
Str_h_Tiff == <<"h",".","T","i","f","f">>

\* a photo message: Telegram's unique id of the file, and its bytes
Photo(uid, b) == [file_unique_id |-> uid, bytes |-> b]
PhotoPool == { Photo(<<"A">>, Bytes(3, TRUE, "RGB")) }

\* a member of a ZIP archive
Entry(name, b) == [name |-> name, bytes |-> b]
EntryPool ==
  { Entry(Str_a_png, Bytes(2, TRUE, "LA")),
    Entry(Str_b_JPG, Bytes(1, FALSE, "")),
    Entry(Str_c_txt, Bytes(1, FALSE, "")),
    Entry(Str_d, Bytes(0, FALSE, "")),
    Entry(Str_d_e, Bytes(3, TRUE, "RGB")),
    Entry(Str_f_gif, Bytes(0, FALSE, "")),
    Entry(Str_g, Bytes(1, TRUE, "RGB")),
    Entry(Str_h_Tiff, Bytes(2, TRUE, "RGBA")) }

\* a document message
Document(mime, valid, entries) ==
  [mime_type |-> mime, valid |-> valid, entries |-> entries]
NoDocument == Document("", FALSE, {})

\* what img.save leaves in the output file when it returns
SaveSizes == {0, 1}

(***************************************************************************)
(* State.                                                                  *)
(***************************************************************************)
VARIABLES
  clock,       \* the wall clock
  nStaged,     \* photos and archive members received so far
  nPress,      \* format buttons pressed so far
  faults,      \* transport calls and statistics writes that have failed so far
  tmp,         \* files made by NamedTemporaryFile: path -> bytes
  zips,        \* converted_images_<stamp>.zip in gettempdir(): stamp -> inode
  inodes,      \* the members written into each such file: inode -> members
  user_data,   \* context.user_data of every user
  stats,       \* stats.stats, in memory
  statsFile,   \* bot_statistics.json
  pc,          \* where the handler of each frame is suspended
  running,     \* the frame whose handler holds the event loop, or None
  up,          \* locals of handle_image / handle_document, by frame
  cb,          \* locals of button_callback, by frame
  obs,         \* what the last button_callback of each frame did, as seen
               \* from outside
  produced,    \* the items appended to converted_files_paths so far, their sizes,
               \* and the statistics load_stats returned
  ADMIN_ID,    \* os.getenv('ADMIN_ID'): None when unset, else a string
  reply        \* the last message stats_command sent, and to whom

vars == << clock, nStaged, nPress, faults, tmp, zips, inodes, user_data,
           stats, statsFile, pc, running, up, cb, obs, produced,
           ADMIN_ID, reply >>

NoBytes == Bytes(0, FALSE, "")

\* no message sent by stats_command yet
NoReply == [to |-> 0, args |-> <<>>, message |-> [kind |-> "none"], read |-> ZeroStats]

\* beside and press tell, once handle_image has appended its image to
\* pending_images, where the button_callback of the user's other frames
\* were suspended at that moment and how many buttons had been pressed
UpInit == [path |-> 0, name |-> <<>>, bytes |-> NoBytes, doc |-> NoDocument,
           before |-> 0, beside |-> {}, press |-> 0]

NoSummary == [processed |-> -1, total |-> -1, original |-> -1, converted |-> -1,
              percent |-> [num |-> 0, den |-> 0]]

\* pending_files_data is the list object of the session for as long as
\* aliased holds; items is that list once the session has been given
\* another one, or the handler has ended.  document is what
\* open(zip_output_path, 'rb') gave send_document.
CbInit ==
  [ data |-> <<>>,
    target_format |-> <<>>,
    aliased |-> FALSE,
    items |-> <<>>,
    document |-> <<>>,
    status |-> None,
    i |-> 1,
    converted_files_paths |-> <<>>,
    total_original_size |-> 0,
    total_converted_size |-> 0,
    successfully_converted_count |-> 0,
    output_converted_path |-> 0,
    zip_output_path |-> -1,
    zip_handle |-> 0,
    final_status_text |-> NoSummary ]

ObsInit ==
  [ batch |-> <<>>,        \* pending_images when the button was pressed
    results |-> <<>>,      \* one record per item appended to converted_files_paths
    log |-> {},            \* logger records: <<kind, index of the item>>
    encoded |-> {},        \* <<target format, mode, mode Image.open found>> of
                           \* every image given to img.save
    progress |-> <<>>,     \* the progress texts put to status.edit_text
    packed |-> FALSE,      \* a ZipFile was opened for writing
    delivered |-> <<>>,    \* members of the archive send_document delivered
    sent |-> FALSE,        \* send_document returned
    nothing |-> FALSE,     \* "No images were successfully converted." was sent
    summary |-> NoSummary, \* the final status text shown
    created |-> {},        \* temporary files this run made
    stamps |-> {},         \* archive files this run made
    overlap |-> FALSE,     \* an item was converted while another handler's loop was suspended
    outcome |-> "none" ]

\* the state after the module is loaded with the environment's ADMIN_ID and
\* whatever statistics file it finds
Started(admin) ==
  /\ ADMIN_ID = admin
  /\ reply = NoReply
  /\ clock = 0
  /\ nStaged = 0
  /\ nPress = 0
  /\ faults = 0
  /\ tmp = EmptyMap
  /\ zips = EmptyMap
  /\ inodes = EmptyMap
  /\ user_data = [u \in Users |-> [has |-> FALSE, pending_images |-> <<>>,
                                   message_to_edit |-> None]]
  /\ statsFile \in StatsFiles
  /\ stats = load_stats(statsFile)
  /\ pc = [u \in Frames |-> "idle"]
  /\ running = None
  /\ up = [u \in Frames |-> UpInit]
  /\ cb = [u \in Frames |-> CbInit]
  /\ obs = [u \in Frames |-> ObsInit]
  /\ produced = [images |-> 0, original |-> 0, converted |-> 0, loaded |-> stats]

\* ADMIN_ID is not set in the environment
Init == Started(None)

\* no handler is in flight in frame u
Idle(u) == pc[u] \in {"idle", "img_done", "doc_done", "cb_done"}

\* a handler may start in frame u: in the frame of its user, or in the
\* second frame while the handler in the first is in flight.  Where only the
\* first frame of a user is run, the transport delivers the events of one
\* chat one at a time.
Free(u) == Idle(u) /\ (u \in Users \/ ~Idle(Owner(u)))

\* pending_files_data of the button_callback in frame u
pending_files_data(u) ==
  IF cb[u].aliased THEN user_data[Owner(u)].pending_images ELSE cb[u].items

\* the event loop may start or resume a handler
LoopFree == running = None

\* if 'pending_images' not in context.user_data: ...
EnsureSession(ud) ==
  IF ud.has THEN ud
  ELSE [has |-> TRUE, pending_images |-> <<>>, message_to_edit |-> None]

\* the range of a sequence
Range(q) == { q[k] : k \in 1..Len(q) }

\* the temporary names that exist or that some handler still holds
NamesInUse ==
  (DOMAIN tmp)
    \cup UNION { { it[1] : it \in Range(user_data[u].pending_images) } : u \in Users }
    \cup UNION { { it[1] : it \in Range(cb[u].items) } : u \in Frames }
    \cup UNION { { f[1] : f \in Range(cb[u].converted_files_paths) } : u \in Frames }
    \cup { cb[u].output_converted_path : u \in Frames }
    \cup { up[u].path : u \in Frames }
    \cup UNION { obs[u].created : u \in Frames }

\* the first n names tempfile may hand out: names nobody uses or holds
RECURSIVE FreshNames(_, _)
FreshNames(n, used) ==
  IF n = 0 THEN <<>>
  ELSE LET x == CHOOSE y \in 1..(Cardinality(used) + 1) :
                  y \notin used /\ \A z \in 1..(y - 1) : z \in used
       IN  <<x>> \o FreshNames(n - 1, used \cup {x})

NewName == FreshNames(1, NamesInUse)[1]

\* an inode no archive file has and no handler holds open
NewInode ==
  FreshNames(1, (DOMAIN inodes) \cup { cb[u].zip_handle : u \in Frames })[1]

\* a call of the transport or of the file system returns (TRUE) or raises
Calls == IF faults < MaxFaults THEN {TRUE, FALSE} ELSE {TRUE}
Charge(ok) == faults' = IF ok THEN faults ELSE faults + 1

(***************************************************************************)
(* Time passes.                                                            *)
(***************************************************************************)
Tick ==
  /\ clock < MaxClock
  /\ clock' = clock + 1
  /\ UNCHANGED << ADMIN_ID, reply, nStaged, nPress, faults, tmp, zips, inodes, user_data,
                  stats, statsFile, pc, running, up, cb, obs,
                  produced >>

(***************************************************************************)
(* handle_image                                                            *)
(***************************************************************************)
\* entry, up to `await context.bot.get_file`
handle_image(u, photo) ==
  /\ Free(u) /\ LoopFree
  /\ nStaged < MaxStaged
  /\ nStaged' = nStaged + 1
  /\ user_data' = [user_data EXCEPT ![Owner(u)] = EnsureSession(@)]
  /\ up' = [up EXCEPT ![u] =
              [UpInit EXCEPT !.bytes = photo.bytes,
                 !.name = <<"i","m","a","g","e","_">> \o photo.file_unique_id
                            \o <<".","j","p","g">>]]
  /\ cb' = [cb EXCEPT ![u] = CbInit]
  /\ obs' = [obs EXCEPT ![u] = ObsInit]
  /\ pc' = [pc EXCEPT ![u] = "img_get_file"]
  /\ UNCHANGED << ADMIN_ID, reply, clock, nPress, faults, tmp, zips, inodes, stats, statsFile,
                  running,
                  produced >>

\* get_file returns or raises; NamedTemporaryFile makes the file; up to
\* `await file.download_to_drive`
img_get_file(u) ==
  /\ pc[u] = "img_get_file" /\ LoopFree
  /\ \E ok \in Calls : Charge(ok) /\
       IF ok
         THEN /\ tmp' = Put(tmp, NewName, NoBytes)
              /\ up' = [up EXCEPT ![u].path = NewName]
              /\ pc' = [pc EXCEPT ![u] = "img_download"]
         ELSE /\ pc' = [pc EXCEPT ![u] = "img_except"]
              /\ UNCHANGED << tmp, up >>
  /\ UNCHANGED << ADMIN_ID, reply, clock, nStaged, nPress, zips, inodes, user_data, stats,
                  statsFile, running, cb, obs,
                  produced >>

\* if context.user_data['message_to_edit']: the await the handler goes to
\* next, edit_text on the message or reply_text when there is none
StatusAwait(ud, atEdit, atReply) ==
  IF ud.message_to_edit /= None THEN atEdit ELSE atReply

\* the awaits of button_callback at which the handlers in the other frames
\* of the user of u are suspended
Beside(u) ==
  { <<v, pc[v]>> : v \in { w \in Frames \ {u} :
                             /\ Owner(w) = Owner(u)
                             /\ pc[w] \in {"cb_answer", "cb_status", "cb_warn",
                                           "cb_progress", "cb_send", "cb_nothing",
                                           "cb_final", "cb_noimg", "cb_except"} } }

\* the download ends; the image is appended to pending_images, the list a
\* button_callback of the user may be iterating; message_to_edit is tested;
\* up to the await that shows the status text
img_download(u) ==
  /\ pc[u] = "img_download" /\ LoopFree
  /\ \E ok \in Calls : Charge(ok) /\
       IF ok
         THEN /\ tmp' = Put(tmp, up[u].path, up[u].bytes)
              /\ user_data' = [user_data EXCEPT ![Owner(u)].pending_images =
                                 Append(@, <<up[u].path, up[u].name>>)]
              /\ up' = [up EXCEPT ![u].beside = Beside(u),
                                  ![u].press = IF Beside(u) = {} THEN 0 ELSE nPress]
              /\ pc' = [pc EXCEPT ![u] =
                          StatusAwait(user_data[Owner(u)], "img_status", "img_status_reply")]
         ELSE /\ pc' = [pc EXCEPT ![u] = "img_except"]
              /\ UNCHANGED << tmp, user_data, up >>
  /\ UNCHANGED << ADMIN_ID, reply, clock, nStaged, nPress, zips, inodes, stats,
                  statsFile, running, cb, obs,
                  produced >>

\* message_to_edit.edit_text returns and the handler ends; or it raises, up
\* to `await update.message.reply_text` in the except clause
img_status(u) ==
  /\ pc[u] = "img_status" /\ LoopFree
  /\ \E ok \in Calls : Charge(ok) /\
       pc' = [pc EXCEPT ![u] = IF ok THEN "img_done" ELSE "img_status_reply"]
  /\ UNCHANGED << ADMIN_ID, reply, clock, nStaged, nPress, tmp, zips, inodes,
                  user_data, stats, statsFile, running, up, cb, obs,
                  produced >>

\* reply_text returns and the message is kept in message_to_edit; or it
\* raises
img_status_reply(u) ==
  /\ pc[u] = "img_status_reply" /\ LoopFree
  /\ \E ok \in Calls : Charge(ok) /\
       IF ok
         THEN /\ user_data' = [user_data EXCEPT ![Owner(u)].message_to_edit = "Message"]
              /\ pc' = [pc EXCEPT ![u] = "img_done"]
         ELSE /\ pc' = [pc EXCEPT ![u] = "img_except"]
              /\ UNCHANGED user_data
  /\ UNCHANGED << ADMIN_ID, reply, clock, nStaged, nPress, tmp, zips, inodes,
                  stats, statsFile, running, up, cb, obs,
                  produced >>

\* except Exception: log, reply "Sorry, there was an error ..."
img_except(u) ==
  /\ pc[u] = "img_except" /\ LoopFree
  /\ pc' = [pc EXCEPT ![u] = "img_done"]
  /\ UNCHANGED << ADMIN_ID, reply, clock, nStaged, nPress, faults, tmp, zips, inodes, user_data,
                  stats, statsFile, running, up, cb, obs,
                  produced >>

(***************************************************************************)
(* handle_document                                                         *)
(***************************************************************************)
\* the name of the entry of temp_extract_dir that an archive member lands in
\* or under: the member's name up to its first slash
TopName(name) ==
  IF \E k \in 1..Len(name) : name[k] = "/"
    THEN SubSeq(name, 1,
                (CHOOSE k \in 1..Len(name) :
                   name[k] = "/" /\ \A h \in 1..(k-1) : name[h] /= "/") - 1)
    ELSE name

\* os.listdir(temp_extract_dir) after zip_ref.extractall
ListDir(entries) == { TopName(e.name) : e \in entries }

\* os.path.isfile(os.path.join(temp_extract_dir, n)), and the file's bytes
IsFile(entries, n) == \E e \in entries : e.name = n
FileBytes(entries, n) == (CHOOSE e \in entries : e.name = n).bytes

\* the names the loop over os.listdir stores as images
StagedNames(entries) ==
  { n \in ListDir(entries) : IsFile(entries, n) /\ HasImageExtension(n) }

\* the orders in which os.listdir may return a set of names
Orders(S) ==
  { s \in [1..Cardinality(S) -> S] : \A a, b \in 1..Cardinality(S) : s[a] = s[b] => a = b }

\* archives drawn from a pool of entries, and documents that are no archive
\* or no readable one
Documents(pool) ==
  { Document("application/zip", TRUE, es) : es \in SUBSET pool }
    \cup { Document("application/zip", FALSE, {}), Document("application/pdf", FALSE, {}) }

\* what a document counts for against MaxStaged: the images it brings, and
\* one when it brings none
Weight(doc) ==
  IF StagedNames(doc.entries) = {} THEN 1 ELSE Cardinality(StagedNames(doc.entries))

\* entry, up to `await context.bot.get_file` (or the reply that refuses a
\* document that is no ZIP)
handle_document(u, doc) ==
  /\ Free(u) /\ LoopFree
  /\ nStaged + Weight(doc) <= MaxStaged
  /\ nStaged' = nStaged + Weight(doc)
  /\ up' = [up EXCEPT ![u] = [UpInit EXCEPT !.doc = doc]]
  /\ IF doc.mime_type = "application/zip"
       THEN /\ user_data' = [user_data EXCEPT ![Owner(u)] = EnsureSession(@)]
            /\ pc' = [pc EXCEPT ![u] = "doc_get_file"]
       ELSE /\ pc' = [pc EXCEPT ![u] = "doc_reply"]
            /\ UNCHANGED user_data
  /\ cb' = [cb EXCEPT ![u] = CbInit]
  /\ obs' = [obs EXCEPT ![u] = ObsInit]
  /\ UNCHANGED << ADMIN_ID, reply, clock, nPress, faults, tmp, zips, inodes, stats, statsFile,
                  running,
                  produced >>

\* get_file returns or raises; NamedTemporaryFile(suffix=".zip") makes the
\* file; up to `await file.download_to_drive`
doc_get_file(u) ==
  /\ pc[u] = "doc_get_file" /\ LoopFree
  /\ \E ok \in Calls : Charge(ok) /\
       IF ok
         THEN /\ tmp' = Put(tmp, NewName, NoBytes)
              /\ up' = [up EXCEPT ![u].path = NewName]
              /\ pc' = [pc EXCEPT ![u] = "doc_download"]
         ELSE /\ pc' = [pc EXCEPT ![u] = "doc_except"]
              /\ UNCHANGED << tmp, up >>
  /\ UNCHANGED << ADMIN_ID, reply, clock, nStaged, nPress, zips, inodes, user_data, stats,
                  statsFile, running, cb, obs,
                  produced >>

\* the files NamedTemporaryFile makes for the names of order, one after the
\* other, added to the temporary directory t
RECURSIVE StoreAll(_, _, _, _)
StoreAll(t, entries, order, names) ==
  IF order = <<>> THEN t
  ELSE StoreAll(Put(t, names[1], FileBytes(entries, order[1])), entries,
                Tail(order), Tail(names))

\* the download ends; the archive is extracted, its images are stored and
\* appended to pending_images, the downloaded archive is unlinked; up to the
\* next await
doc_download(u) ==
  /\ pc[u] = "doc_download" /\ LoopFree
  /\ LET doc == up[u].doc
         zip_download_path == up[u].path
     IN \E ok \in Calls : Charge(ok) /\
       IF ~ok
         THEN /\ pc' = [pc EXCEPT ![u] = "doc_except"]
              /\ UNCHANGED << tmp, user_data, up >>
       ELSE IF ~doc.valid
         \* zipfile.ZipFile raises BadZipFile
         THEN /\ tmp' = Put(tmp, zip_download_path, Bytes(1, FALSE, "zip"))
              /\ pc' = [pc EXCEPT ![u] = "doc_except"]
              /\ UNCHANGED << user_data, up >>
       ELSE \E order \in Orders(StagedNames(doc.entries)) :
              LET n == Len(order)
                  names == FreshNames(n, NamesInUse)
                  stored == [k \in 1..n |-> <<names[k], order[k]>>]
                  pending == user_data[Owner(u)].pending_images \o stored
              IN /\ tmp' = Del(StoreAll(tmp, doc.entries, order, names),
                               zip_download_path)
                 /\ up' = [up EXCEPT ![u].before = Len(user_data[Owner(u)].pending_images)]
                 /\ user_data' = [user_data EXCEPT ![Owner(u)].pending_images = pending]
                 /\ pc' = [pc EXCEPT ![u] =
                             IF pending = <<>> THEN "doc_reply"
                             ELSE StatusAwait(user_data[Owner(u)], "doc_status",
                                              "doc_status_reply")]
  /\ UNCHANGED << ADMIN_ID, reply, clock, nStaged, nPress, zips, inodes, stats, statsFile,
                  running, cb, obs,
                  produced >>

\* message_to_edit.edit_text returns and the handler ends; or it raises, up
\* to `await update.message.reply_text` in the except clause
doc_status(u) ==
  /\ pc[u] = "doc_status" /\ LoopFree
  /\ \E ok \in Calls : Charge(ok) /\
       pc' = [pc EXCEPT ![u] = IF ok THEN "doc_done" ELSE "doc_status_reply"]
  /\ UNCHANGED << ADMIN_ID, reply, clock, nStaged, nPress, tmp, zips, inodes,
                  user_data, stats, statsFile, running, up, cb, obs,
                  produced >>

\* reply_text returns and the message is kept in message_to_edit; or it
\* raises
doc_status_reply(u) ==
  /\ pc[u] = "doc_status_reply" /\ LoopFree
  /\ \E ok \in Calls : Charge(ok) /\
       IF ok
         THEN /\ user_data' = [user_data EXCEPT ![Owner(u)].message_to_edit = "Message"]
              /\ pc' = [pc EXCEPT ![u] = "doc_done"]
         ELSE /\ pc' = [pc EXCEPT ![u] = "doc_except"]
              /\ UNCHANGED user_data
  /\ UNCHANGED << ADMIN_ID, reply, clock, nStaged, nPress, tmp, zips, inodes,
                  stats, statsFile, running, up, cb, obs,
                  produced >>

\* the reply "The ZIP file did not contain any supported image files." or
\* "Please send a ZIP file ..." returns or raises
doc_reply(u) ==
  /\ pc[u] = "doc_reply" /\ LoopFree
  /\ \E ok \in Calls : Charge(ok) /\
       pc' = [pc EXCEPT ![u] = IF ok THEN "doc_done" ELSE "doc_except"]
  /\ UNCHANGED << ADMIN_ID, reply, clock, nStaged, nPress, tmp, zips, inodes, user_data,
                  stats, statsFile, running, up, cb, obs,
                  produced >>

\* except Exception: log, reply "Sorry, there was an error ..."
doc_except(u) ==
  /\ pc[u] = "doc_except" /\ LoopFree
  /\ pc' = [pc EXCEPT ![u] = "doc_done"]
  /\ UNCHANGED << ADMIN_ID, reply, clock, nStaged, nPress, faults, tmp, zips, inodes, user_data,
                  stats, statsFile, running, up, cb, obs,
                  produced >>

(***************************************************************************)
(* button_callback                                                         *)
(***************************************************************************)
\* a format button is pressed: entry, up to `await query.answer()`
button(u, format_name) ==
  /\ Free(u) /\ LoopFree
  /\ nPress < MaxPress
  /\ nPress' = nPress + 1
  /\ cb' = [cb EXCEPT ![u] = [CbInit EXCEPT !.data = callback_data(format_name)]]
  /\ obs' = [obs EXCEPT ![u] = ObsInit]
  /\ up' = [up EXCEPT ![u] = UpInit]
  /\ pc' = [pc EXCEPT ![u] = "cb_answer"]
  /\ UNCHANGED << ADMIN_ID, reply, clock, nStaged, faults, tmp, zips, inodes, user_data, stats,
                  statsFile, running,
                  produced >>

\* query.answer() returns (or raises, outside the try); the target format is
\* read; up to the reply "Preparing to convert ..." or "No images found ..."
cb_answer(u) ==
  /\ pc[u] = "cb_answer" /\ LoopFree
  /\ \E ok \in Calls : Charge(ok) /\
       IF ~ok
         THEN /\ pc' = [pc EXCEPT ![u] = "cb_done"]
              /\ obs' = [obs EXCEPT ![u].outcome = "unhandled"]
              /\ UNCHANGED cb
         ELSE IF HasPending(user_data[Owner(u)])
                THEN \* pending_files_data = context.user_data['pending_images']
                     /\ cb' = [cb EXCEPT ![u].target_format = target_format_of(cb[u].data),
                                         ![u].aliased = TRUE]
                     /\ pc' = [pc EXCEPT ![u] = "cb_status"]
                     /\ obs' = [obs EXCEPT ![u].batch = user_data[Owner(u)].pending_images]
                ELSE /\ cb' = [cb EXCEPT ![u].target_format = target_format_of(cb[u].data)]
                     /\ pc' = [pc EXCEPT ![u] = "cb_noimg"]
                     /\ UNCHANGED obs
  /\ UNCHANGED << ADMIN_ID, reply, clock, nStaged, nPress, tmp, zips, inodes, user_data,
                  stats, statsFile, running, up,
                  produced >>

\* the reply "Preparing to convert ..." returns or raises; the loop begins
cb_status(u) ==
  /\ pc[u] = "cb_status" /\ LoopFree
  /\ \E ok \in Calls : Charge(ok) /\
       IF ok
         THEN /\ cb' = [cb EXCEPT ![u].status = "Message"]
              /\ pc' = [pc EXCEPT ![u] = "cb_loop"]
              /\ running' = u
         ELSE /\ pc' = [pc EXCEPT ![u] = "cb_except"]
              /\ UNCHANGED << cb, running >>
  /\ UNCHANGED << ADMIN_ID, reply, clock, nStaged, nPress, tmp, zips, inodes, user_data,
                  stats, statsFile, up, obs,
                  produced >>

\* what the file system does to the next write of the statistics file
IoCalls == IF faults < MaxFaults THEN IoOutcomes ELSE {"ok"}

\* what img.save does: -1 it raises, otherwise the length of the file it wrote
SaveOutcomes == {-1} \cup SaveSizes

\* logger.error / logger.warning about item i of the batch
Logged(log, kind, i) == log \cup {<<kind, i>>}

\* the ConversionResult of an item: what is appended to converted_files_paths,
\* with the two sizes measured for it and the index of the item
Result(src, path, name, original_size, converted_size) ==
  [ src |-> src, outputRef |-> path, archiveName |-> name,
    originalSize |-> original_size, convertedSize |-> converted_size ]

\* the total of the results after one more
Produce(p, original_size, converted_size) ==
  [ images |-> p.images + 1,
    original |-> p.original + original_size,
    converted |-> p.converted + converted_size,
    loaded |-> p.loaded ]

\* another handler is suspended inside its loop over the items
OthersInLoop(u) ==
  \E v \in Frames \ {u} : pc[v] \in {"cb_warn", "cb_progress"}

\* one iteration of `for temp_file_path, original_filename in
\* pending_files_data`, up to its continue or to the await it stops at
cb_item(u) ==
  /\ pc[u] = "cb_loop" /\ running = u
  /\ cb[u].i <= Len(pending_files_data(u))
  /\ LET c == cb[u]
         o == obs[u]
         total == Len(pending_files_data(u))
         temp_file_path == pending_files_data(u)[c.i][1]
         original_filename == pending_files_data(u)[c.i][2]
     IN
     IF temp_file_path \notin DOMAIN tmp
       THEN \* "does not exist. Skipping."
            /\ cb' = [cb EXCEPT ![u].i = c.i + 1]
            /\ obs' = [obs EXCEPT ![u].log = Logged(o.log, "missing", c.i)]
            /\ UNCHANGED << clock, faults, tmp, stats, statsFile, pc, running, produced >>
     ELSE IF tmp[temp_file_path].size = 0
       THEN \* "is empty. Skipping."
            /\ cb' = [cb EXCEPT ![u].i = c.i + 1]
            /\ obs' = [obs EXCEPT ![u].log = Logged(o.log, "empty", c.i)]
            /\ UNCHANGED << clock, faults, tmp, stats, statsFile, pc, running, produced >>
     ELSE
       LET current_original_size == tmp[temp_file_path].size
           c1 == [c EXCEPT !.total_original_size = @ + current_original_size]
       IN
       IF ~tmp[temp_file_path].dec
         THEN \* Image.open raises: except Exception, up to its reply_text
              /\ cb' = [cb EXCEPT ![u] = c1]
              /\ obs' = [obs EXCEPT ![u].log = Logged(o.log, "error", c.i)]
              /\ pc' = [pc EXCEPT ![u] = "cb_warn"]
              /\ running' = None
              /\ UNCHANGED << clock, faults, tmp, stats, statsFile, produced >>
       ELSE
         LET mode == NormalizeMode(c.target_format, tmp[temp_file_path].mode)
             name == filename_in_zip(original_filename, c.target_format)
             output_converted_path == NewName
             c2 == [c1 EXCEPT !.output_converted_path = output_converted_path]
             o2 == [o EXCEPT !.encoded = @ \cup {<<c.target_format, mode,
                                                     tmp[temp_file_path].mode>>},
                             !.created = @ \cup {output_converted_path}]
         IN
         \E r \in SaveOutcomes :
              IF r = -1 \/ ~EncoderAccepts(c.target_format, mode)
                THEN \* img.save raises: except Exception, up to its reply_text
                     /\ tmp' = Put(tmp, output_converted_path, NoBytes)
                     /\ cb' = [cb EXCEPT ![u] = c2]
                     /\ obs' = [obs EXCEPT ![u] =
                                  [o2 EXCEPT !.log = Logged(@, "error", c.i)]]
                     /\ pc' = [pc EXCEPT ![u] = "cb_warn"]
                     /\ running' = None
                     /\ UNCHANGED << clock, faults, stats, statsFile, produced >>
              ELSE IF r = 0
                THEN \* "missing or empty after save. Skipping.": unlinked
                     /\ cb' = [cb EXCEPT ![u] = [c2 EXCEPT !.i = c.i + 1]]
                     /\ obs' = [obs EXCEPT ![u] =
                                  [o2 EXCEPT !.log = Logged(@, "no_output", c.i)]]
                     /\ UNCHANGED << clock, faults, tmp, stats, statsFile, pc, running, produced >>
              ELSE
                \* update_conversion_stats reads the clock for the day, then
                \* again for the month
                \E t2 \in {t \in {clock, clock + 1} : t <= MaxClock}, io \in IoCalls :
                  LET current_converted_size == r
                      st == update_conversion_stats(stats, current_original_size,
                              current_converted_size, c.target_format,
                              Today(clock), Month(t2))
                      sv == save_stats(st, statsFile, io)
                      c3 == [c2 EXCEPT !.total_converted_size = @ + current_converted_size]
                      o3 == IF sv.logged
                              THEN [o2 EXCEPT !.log = Logged(@, "save_error", c.i)]
                              ELSE o2
                      count == c.successfully_converted_count + 1
                      c4 == [c3 EXCEPT
                               !.converted_files_paths =
                                  Append(@, <<output_converted_path, name>>),
                               !.successfully_converted_count = count]
                      o4 == [o3 EXCEPT !.results =
                               Append(@, Result(c.i, output_converted_path, name,
                                        current_original_size, current_converted_size)),
                                   !.overlap = @ \/ OthersInLoop(u)]
                  IN
                  /\ clock' = t2
                  /\ tmp' = Put(tmp, output_converted_path,
                                Bytes(current_converted_size, TRUE, mode))
                  /\ faults' = IF io = "ok" THEN faults ELSE faults + 1
                  /\ stats' = st
                  /\ statsFile' = sv.file
                  /\ IF sv.raised
                       THEN \* an exception out of update_conversion_stats
                            /\ cb' = [cb EXCEPT ![u] = c3]
                            /\ obs' = [obs EXCEPT ![u] =
                                         [o3 EXCEPT !.log = Logged(@, "error", c.i)]]
                            /\ pc' = [pc EXCEPT ![u] = "cb_warn"]
                            /\ running' = None
                            /\ UNCHANGED produced
                     ELSE IF ProgressDue(count, total)
                       THEN \* up to `await status.edit_text(progress_text)`
                            /\ cb' = [cb EXCEPT ![u] = c4]
                            /\ obs' = [obs EXCEPT ![u] =
                                 [o4 EXCEPT !.progress = Append(@,
                                    [ processed |-> count, total |-> total,
                                      original |-> c4.total_original_size,
                                      converted |-> c4.total_converted_size ])]]
                            /\ pc' = [pc EXCEPT ![u] = "cb_progress"]
                            /\ running' = None
                            /\ produced' = Produce(produced, current_original_size,
                                                   current_converted_size)
                       ELSE /\ cb' = [cb EXCEPT ![u] = [c4 EXCEPT !.i = c.i + 1]]
                            /\ obs' = [obs EXCEPT ![u] = o4]
                            /\ produced' = Produce(produced, current_original_size,
                                                   current_converted_size)
                            /\ UNCHANGED << pc, running >>
  /\ UNCHANGED << ADMIN_ID, reply, nStaged, nPress, zips, inodes, user_data, up >>

\* the reply "Error converting ... Skipping it." returns: the file named by
\* output_converted_path is unlinked if it exists, and the loop continues;
\* or the reply raises, out of the loop
cb_warn(u) ==
  /\ pc[u] = "cb_warn" /\ LoopFree
  /\ \E ok \in Calls : Charge(ok) /\
       IF ok
         THEN /\ tmp' = DelAll(tmp, {cb[u].output_converted_path})
              /\ cb' = [cb EXCEPT ![u].i = @ + 1]
              /\ pc' = [pc EXCEPT ![u] = "cb_loop"]
              /\ running' = u
         ELSE /\ pc' = [pc EXCEPT ![u] = "cb_except"]
              /\ UNCHANGED << tmp, cb, running >>
  /\ UNCHANGED << ADMIN_ID, reply, clock, nStaged, nPress, zips, inodes, user_data,
                  stats, statsFile, up, obs,
                  produced >>

\* status.edit_text(progress_text) returns, or raises and is only logged
cb_progress(u) ==
  /\ pc[u] = "cb_progress" /\ LoopFree
  /\ \E ok \in Calls : Charge(ok) /\
       obs' = [obs EXCEPT ![u].log =
                 IF ok THEN @ ELSE @ \cup {<<"progress_error", cb[u].i>>}]
  /\ cb' = [cb EXCEPT ![u].i = @ + 1]
  /\ pc' = [pc EXCEPT ![u] = "cb_loop"]
  /\ running' = u
  /\ UNCHANGED << ADMIN_ID, reply, clock, nStaged, nPress, tmp, zips, inodes, user_data,
                  stats, statsFile, up,
                  produced >>

\* a member of an archive file
Member(arcname, bytes) == [arcname |-> arcname, bytes |-> bytes]

\* an archive filled from the end of converted_files_paths
RECURSIVE WrittenBackwards(_, _)
WrittenBackwards(files, t) ==
  IF files = <<>> \/ files[Len(files)][1] \notin DOMAIN t THEN <<>>
  ELSE <<Member(files[Len(files)][2], t[files[Len(files)][1]])>>
         \o WrittenBackwards(SubSeq(files, 1, Len(files) - 1), t)

\* the members zipf.write has added when the loop over converted_files_paths
\* ends or raises FileNotFoundError: those of the files before the first one
\* that is missing
RECURSIVE Written(_, _)
Written(files, t) ==
  IF files = <<>> \/ files[1][1] \notin DOMAIN t THEN <<>>
  ELSE <<Member(files[1][2], t[files[1][1]])>> \o Written(Tail(files), t)

\* a percentage computed without the test of the total
size_reduction_percent_unguarded(total_original_size, total_converted_size) ==
  IF total_original_size = 0
    THEN [raised |-> TRUE, num |-> 0, den |-> 0]
    ELSE [raised |-> FALSE,
          num |-> (total_original_size - total_converted_size) * 100,
          den |-> total_original_size]

\* size_reduction_percent, as the fraction num / den, and whether the
\* division raises ZeroDivisionError
size_reduction_percent(total_original_size, total_converted_size) ==
  IF total_original_size > 0
    THEN [raised |-> FALSE,
          num |-> (total_original_size - total_converted_size) * 100,
          den |-> total_original_size]
    ELSE [raised |-> FALSE, num |-> 0, den |-> 1]

\* the final status text
Summary(c, total) ==
  LET pct == size_reduction_percent(c.total_original_size, c.total_converted_size)
  IN  [ processed |-> c.successfully_converted_count,
        total |-> total,
        original |-> c.total_original_size,
        converted |-> c.total_converted_size,
        percent |-> [num |-> pct.num, den |-> pct.den] ]

\* the division of the final status text raises
SummaryRaises(c) ==
  size_reduction_percent(c.total_original_size, c.total_converted_size).raised

\* the loop is over: the archive is written and opened for sending, up to
\* `await context.bot.send_document`; or, with nothing converted, up to the
\* reply "No images were successfully converted."
cb_loop_end(u) ==
  /\ pc[u] = "cb_loop" /\ running = u
  /\ cb[u].i > Len(pending_files_data(u))
  /\ running' = None
  /\ LET c == cb[u]
         zip_output_path == Stamp(clock)
         fresh == zip_output_path \notin DOMAIN zips
         ino == IF fresh THEN NewInode ELSE zips[zip_output_path]
         members == Written(c.converted_files_paths, tmp)
     IN
     IF ShouldPack(c.converted_files_paths)
       THEN /\ zips' = Put(zips, zip_output_path, ino)
            /\ inodes' = Put(inodes, ino, members)
            /\ obs' = [obs EXCEPT ![u].packed = TRUE,
                                  ![u].stamps = @ \cup {zip_output_path}]
            /\ IF Len(members) = Len(c.converted_files_paths)
                 THEN \* open(zip_output_path, 'rb') is given to send_document
                      /\ cb' = [cb EXCEPT ![u].zip_output_path = zip_output_path,
                                          ![u].zip_handle = ino,
                                          ![u].document = members]
                      /\ pc' = [pc EXCEPT ![u] = "cb_send"]
                 ELSE \* zipf.write raises FileNotFoundError
                      /\ cb' = [cb EXCEPT ![u].zip_output_path = zip_output_path]
                      /\ pc' = [pc EXCEPT ![u] = "cb_except"]
       ELSE /\ pc' = [pc EXCEPT ![u] = "cb_nothing"]
            /\ UNCHANGED << zips, inodes, obs, cb >>
  /\ UNCHANGED << ADMIN_ID, reply, clock, nStaged, nPress, faults, tmp, user_data, stats, statsFile, up,
                  produced >>

\* the inodes left once u has closed its handle on ino and zs are the names
\* that remain: ino goes unless a name or another open handle keeps it
Release(u, zs, ino) ==
  IF \/ \E v \in Frames \ {u} :
          pc[v] \in {"cb_send", "cb_except"} /\ cb[v].zip_handle = ino
     \/ \E k \in DOMAIN zs : zs[k] = ino
    THEN inodes
    ELSE Del(inodes, ino)

\* send_document returns: the archive and the converted files are unlinked,
\* the final status text is built, up to `await status.edit_text`; or
\* send_document raises
cb_send(u) ==
  /\ pc[u] = "cb_send" /\ LoopFree
  /\ \E ok \in Calls : Charge(ok) /\
       LET c == cb[u]
           total == Len(pending_files_data(u))
           closed == [c EXCEPT !.zip_handle = 0, !.document = <<>>]
       IN
       IF ~ok
         THEN \* the file object stays open while the exception is handled
              /\ pc' = [pc EXCEPT ![u] = "cb_except"]
              /\ UNCHANGED << zips, inodes, tmp, cb, obs >>
       ELSE IF c.zip_output_path \notin DOMAIN zips
         THEN \* os.unlink(zip_output_path) raises FileNotFoundError
              /\ obs' = [obs EXCEPT ![u].sent = TRUE,
                                    ![u].delivered = c.document]
              /\ inodes' = Release(u, zips, c.zip_handle)
              /\ cb' = [cb EXCEPT ![u] = closed]
              /\ pc' = [pc EXCEPT ![u] = "cb_except"]
              /\ UNCHANGED << zips, tmp >>
       ELSE /\ obs' = [obs EXCEPT ![u].sent = TRUE,
                                  ![u].delivered = c.document]
            /\ zips' = Del(zips, c.zip_output_path)
            /\ inodes' = Release(u, Del(zips, c.zip_output_path), c.zip_handle)
            /\ tmp' = DelAll(tmp, { f[1] : f \in Range(c.converted_files_paths) })
            /\ IF SummaryRaises(c)
                 THEN /\ pc' = [pc EXCEPT ![u] = "cb_except"]
                      /\ cb' = [cb EXCEPT ![u] = closed]
                 ELSE /\ cb' = [cb EXCEPT ![u] =
                                  [closed EXCEPT !.final_status_text = Summary(c, total)]]
                      /\ pc' = [pc EXCEPT ![u] = "cb_final"]
  /\ UNCHANGED << ADMIN_ID, reply, clock, nStaged, nPress, user_data, stats,
                  statsFile, running, up,
                  produced >>

\* the reply "No images were successfully converted." returns or raises
cb_nothing(u) ==
  /\ pc[u] = "cb_nothing" /\ LoopFree
  /\ \E ok \in Calls : Charge(ok) /\
       IF ok
         THEN /\ obs' = [obs EXCEPT ![u].nothing = TRUE]
              /\ IF SummaryRaises(cb[u])
                   THEN /\ pc' = [pc EXCEPT ![u] = "cb_except"]
                        /\ UNCHANGED cb
                   ELSE /\ cb' = [cb EXCEPT ![u].final_status_text =
                                    Summary(cb[u], Len(pending_files_data(u)))]
                        /\ pc' = [pc EXCEPT ![u] = "cb_final"]
         ELSE /\ pc' = [pc EXCEPT ![u] = "cb_except"]
              /\ UNCHANGED << obs, cb >>
  /\ UNCHANGED << ADMIN_ID, reply, clock, nStaged, nPress, tmp, zips, inodes, user_data,
                  stats, statsFile, running, up,
                  produced >>

\* what the file system does to the os.unlink of the cleanup loop: the sets
\* of staged files whose unlink raises
UnlinkFailures(paths) ==
  {{}} \cup (IF faults < MaxFaults THEN { {x} : x \in paths } ELSE {})

\* status.edit_text(final_status_text) returns: the staged files that exist
\* are unlinked, an unlink that raises being logged and its file left, and
\* the session is cleared; or edit_text raises
cb_final(u) ==
  /\ pc[u] = "cb_final" /\ LoopFree
  /\ \E ok \in Calls :
       IF ok
         THEN LET list == pending_files_data(u)
                  existing == { it[1] : it \in Range(list) } \cap DOMAIN tmp
              IN \E kept \in UnlinkFailures(existing) :
                /\ faults' = faults + Cardinality(kept)
                /\ obs' = [obs EXCEPT
                             ![u].summary = cb[u].final_status_text,
                             ![u].outcome = "completed",
                             ![u].log = @ \cup { <<"unlink_error", k>> :
                                                   k \in { j \in 1..Len(list) :
                                                             list[j][1] \in kept } }]
                /\ tmp' = DelAll(tmp, existing \ kept)
                /\ user_data' = [user_data EXCEPT ![Owner(u)].pending_images = <<>>,
                                                  ![Owner(u)].message_to_edit = None]
                \* the session has a new list: the handlers that hold the
                \* old one keep it
                /\ cb' = [v \in Frames |->
                            IF Owner(v) = Owner(u) /\ cb[v].aliased
                              THEN [cb[v] EXCEPT !.aliased = FALSE,
                                                 !.items = user_data[Owner(u)].pending_images]
                              ELSE cb[v]]
                /\ pc' = [pc EXCEPT ![u] = "cb_done"]
         ELSE /\ Charge(ok)
              /\ pc' = [pc EXCEPT ![u] = "cb_except"]
              /\ UNCHANGED << obs, tmp, user_data, cb >>
  /\ UNCHANGED << ADMIN_ID, reply, clock, nStaged, nPress, zips, inodes, stats,
                  statsFile, running, up,
                  produced >>

\* the reply "No images found to convert. ..." returns or raises
cb_noimg(u) ==
  /\ pc[u] = "cb_noimg" /\ LoopFree
  /\ \E ok \in Calls : Charge(ok) /\
       IF ok
         THEN /\ pc' = [pc EXCEPT ![u] = "cb_done"]
              /\ obs' = [obs EXCEPT ![u].outcome = "no_images"]
         ELSE /\ pc' = [pc EXCEPT ![u] = "cb_except"]
              /\ UNCHANGED obs
  /\ UNCHANGED << ADMIN_ID, reply, clock, nStaged, nPress, tmp, zips, inodes, user_data,
                  stats, statsFile, running, up, cb,
                  produced >>

\* except Exception at the top level: log, reply "Sorry, a critical error
\* occurred ..."; the handler ends whether the reply returns or raises
cb_except(u) ==
  /\ pc[u] = "cb_except" /\ LoopFree
  /\ pc' = [pc EXCEPT ![u] = "cb_done"]
  /\ obs' = [obs EXCEPT ![u].outcome = "critical"]
  \* the exception goes, and with it the file object send_document was given
  /\ inodes' = IF cb[u].zip_handle = 0 THEN inodes
               ELSE Release(u, zips, cb[u].zip_handle)
  \* pending_files_data goes with the frame: what the list held at the end
  /\ cb' = [cb EXCEPT ![u].zip_handle = 0, ![u].document = <<>>,
                      ![u].aliased = FALSE, ![u].items = pending_files_data(u)]
  /\ UNCHANGED << ADMIN_ID, reply, clock, nStaged, nPress, faults, tmp, zips,
                  user_data, stats, statsFile, running, up,
                  produced >>

(***************************************************************************)
(* The bot: the handlers, for a set of users US, fed from pools of photos, *)
(* documents and target formats.                                           *)
(***************************************************************************)
ImageHandlers(US, photos) ==
  \E u \in US :
    \/ \E photo \in photos : handle_image(u, photo)
    \/ img_get_file(u)
    \/ img_download(u)
    \/ img_status(u)
    \/ img_status_reply(u)
    \/ img_except(u)

DocumentHandlers(US, docs) ==
  \E u \in US :
    \/ \E doc \in docs : handle_document(u, doc)
    \/ doc_get_file(u)
    \/ doc_download(u)
    \/ doc_status(u)
    \/ doc_status_reply(u)
    \/ doc_reply(u)
    \/ doc_except(u)

ButtonHandlers(US, formats) ==
  \E u \in US :
    \/ \E f \in formats : button(u, f)
    \/ cb_answer(u)
    \/ cb_status(u)
    \/ cb_item(u)
    \/ cb_warn(u)
    \/ cb_progress(u)
    \/ cb_loop_end(u)
    \/ cb_send(u)
    \/ cb_nothing(u)
    \/ cb_final(u)
    \/ cb_noimg(u)
    \/ cb_except(u)

\* One user sends photos and archives and presses format buttons.
OneUser == {"u1"}
FormatPool == {JPEG, WEBP}
SmallEntryPool ==
  { e \in EntryPool : e.name \in {Str_a_png, Str_b_JPG} }

Next ==
  \/ Tick
  \/ ImageHandlers(OneUser, PhotoPool)
  \/ DocumentHandlers(OneUser, Documents(SmallEntryPool))
  \/ ButtonHandlers(OneUser, FormatPool)

Spec == Init /\ [][Next]_vars

\* Two users send photos and press format buttons; their handlers interleave
\* at every await.
NextTwo ==
  \/ Tick
  \/ ImageHandlers(Users, PhotoPool)
  \/ ButtonHandlers(Users, FormatPool)

SpecTwo == Init /\ [][NextTwo]_vars


(***************************************************************************)
(* Statistics on its own: update_conversion_stats called with any sizes    *)
(* and formats while time passes, also between its two readings of the     *)
(* clock.                                                                  *)
(***************************************************************************)
RecordSizes == {0, 1}
RecordFormats == {JPEG, PNG, WEBP}

record(original_size, converted_size, target_format) ==
  /\ stats.total_images < MaxRecords
  /\ \E t2 \in {t \in {clock, clock + 1} : t <= MaxClock}, io \in IoCalls :
       LET st == update_conversion_stats(stats, original_size, converted_size,
                   target_format, Today(clock), Month(t2))
           sv == save_stats(st, statsFile, io)
       IN /\ clock' = t2
          /\ stats' = st
          /\ statsFile' = sv.file
          /\ faults' = IF io = "ok" THEN faults ELSE faults + 1
  /\ UNCHANGED << ADMIN_ID, reply, nStaged, nPress, tmp, zips, inodes, user_data, pc, running,
                  up, cb, obs,
                  produced >>

NextStats ==
  \/ Tick
  \/ \E o \in RecordSizes, c \in RecordSizes, f \in RecordFormats : record(o, c, f)

SpecStats == Init /\ [][NextStats]_vars

(***************************************************************************)
(* stats_command                                                           *)
(***************************************************************************)
\* str(update.effective_user.id), for a user id that is not negative
DigitChars == <<"0", "1", "2", "3", "4", "5", "6", "7", "8", "9">>
RECURSIVE Str(_)
Str(n) ==
  IF n < 10 THEN <<DigitChars[n + 1]>>
  ELSE Str(n \div 10) \o <<DigitChars[(n % 10) + 1]>>

\* the sign of r * 20 - (2 * j + 1) * D, for 0 <= r < D
HalfSign(r, D, j) ==
  LET m == 2 * j + 1
      d == r - m * (D \div 20)
      e == m * (D % 20)
  IN  IF d > 19 THEN 1
      ELSE IF d < 0 THEN -1
      ELSE IF 20 * d > e THEN 1 ELSE IF 20 * d < e THEN -1 ELSE 0

\* f"{n / D:.1f}" in tenths, for n >= 0: the nearest tenth, the even one at
\* a tie
Tenths(n, D) ==
  LET r == n % D
      up_to == { j \in 0..9 : \/ HalfSign(r, D, j) = 1
                              \/ HalfSign(r, D, j) = 0 /\ j % 2 = 1 }
  IN  (n \div D) * 10 + Cardinality(up_to)

\* format_size: the number in tenths, and the unit.  The integers of the
\* model end below 1024^3 * 2, so the loop always returns.
format_size(size_bytes) ==
  IF size_bytes < 1024 THEN [tenths |-> size_bytes * 10, unit |-> "B"]
  ELSE IF size_bytes < 1048576 THEN [tenths |-> Tenths(size_bytes, 1024), unit |-> "KB"]
  ELSE IF size_bytes < 1073741824
    THEN [tenths |-> Tenths(size_bytes, 1048576), unit |-> "MB"]
  ELSE [tenths |-> Tenths(size_bytes, 1073741824), unit |-> "GB"]

\* an open door: an unset ADMIN_ID lets every caller in
IsAdminWhenUnset(admin, id) ==
  admin = None \/ admin = <<>> \/ Str(id) = admin

\* the negation of the test at the head of stats_command
IsAdmin(admin, id) ==
  ~(admin = None \/ admin = <<>> \/ Str(id) /= admin)

\* the text of one period
PeriodMessage(kind, d) ==
  [ kind |-> kind,
    images |-> d.images,
    original |-> format_size(d.size_original),
    converted |-> format_size(d.size_converted),
    saved |-> format_size(d.size_original - d.size_converted) ]

\* a lookup that makes the entry it does not find (setdefault for get)
queryMaking(st, args, today, month) ==
  LET period == IF args /= <<>> THEN args[1] ELSE "all"
      daily == IF today \in DOMAIN st.daily_stats
                 THEN st.daily_stats ELSE Put(st.daily_stats, today, ZeroPeriod)
      monthly == IF month \in DOMAIN st.monthly_stats
                   THEN st.monthly_stats ELSE Put(st.monthly_stats, month, ZeroPeriod)
  IN  IF period = "today"
        THEN [ stats |-> [st EXCEPT !.daily_stats = daily],
               message |-> PeriodMessage("today", daily[today]) ]
      ELSE IF period = "month"
        THEN [ stats |-> [st EXCEPT !.monthly_stats = monthly],
               message |-> PeriodMessage("month", monthly[month]) ]
      ELSE [ stats |-> st,
             message |->
               [ kind |-> "all",
                 images |-> st.total_images,
                 original |-> format_size(st.total_size_original),
                 converted |-> format_size(st.total_size_converted),
                 saved |-> format_size(st.total_size_original - st.total_size_converted),
                 formats |-> st.conversions_by_format ] ]

\* the body of stats_command after the test of the caller: the message, and
\* stats.stats afterwards
query(st, args, today, month) ==
  LET period == IF args /= <<>> THEN args[1] ELSE "all"
  IN  IF period = "today"
        THEN [ stats |-> st,
               message |->
                 PeriodMessage("today",
                   IF today \in DOMAIN st.daily_stats
                     THEN st.daily_stats[today] ELSE ZeroPeriod) ]
      ELSE IF period = "month"
        THEN [ stats |-> st,
               message |->
                 PeriodMessage("month",
                   IF month \in DOMAIN st.monthly_stats
                     THEN st.monthly_stats[month] ELSE ZeroPeriod) ]
      ELSE [ stats |-> st,
             message |->
               [ kind |-> "all",
                 images |-> st.total_images,
                 original |-> format_size(st.total_size_original),
                 converted |-> format_size(st.total_size_converted),
                 saved |-> format_size(st.total_size_original - st.total_size_converted),
                 formats |-> st.conversions_by_format ] ]

Refusal == [kind |-> "refused"]

\* /stats from the user id, with context.args = args
stats_command(id, args) ==
  /\ IF ~IsAdmin(ADMIN_ID, id)
       THEN /\ reply' = [to |-> id, args |-> args, message |-> Refusal, read |-> stats]
            /\ UNCHANGED stats
       ELSE LET q == query(stats, args, Today(clock), Month(clock))
            IN /\ stats' = q.stats
               /\ reply' = [to |-> id, args |-> args, message |-> q.message,
                            read |-> q.stats]
  /\ UNCHANGED << ADMIN_ID, clock, nStaged, nPress, faults, tmp, zips, inodes,
                  user_data, statsFile, pc, running, up, cb, obs, produced >>

\* the values ADMIN_ID may have, the callers and the arguments of /stats
AdminIds == {None, <<>>, <<"7">>, <<"0", "7">>}
CallerIds == {7, 8}
ArgLists == {<<>>, <<"today">>, <<"month">>, <<"all">>, <<"week">>}

InitQuery == \E admin \in AdminIds : Started(admin)

QueryFormats == {JPEG}
QueryOriginals == {1}

NextQuery ==
  \/ Tick
  \/ \E o \in QueryOriginals, c \in RecordSizes, f \in QueryFormats : record(o, c, f)
  \/ \E id \in CallerIds, args \in ArgLists : stats_command(id, args)

SpecQuery == InitQuery /\ [][NextQuery]_vars

\* An archive that holds one image of colour mode m
OneImageArchive(m) ==
  Document("application/zip", TRUE, { Entry(Str_a_png, Bytes(1, TRUE, m)) })

\* An archive that holds one file named as an image, of bytes b
OneFileArchive(b) ==
  Document("application/zip", TRUE, { Entry(Str_a_png, b) })

\* A state in which no handler is in flight and images are staged for the
\* first user, whose last handler left the locals `locals` and ended at
\* `at`: n images or archive members have been received and `presses` format
\* buttons pressed, the temporary directory is t and pending_images is
\* pending.
Staged(n, presses, t, pending, at, locals) ==
  /\ ADMIN_ID = None
  /\ reply = NoReply
  /\ clock = 0
  /\ nStaged = n
  /\ nPress = presses
  /\ faults = 0
  /\ tmp = t
  /\ zips = EmptyMap
  /\ inodes = EmptyMap
  /\ user_data = [u \in Users |->
                    IF u = "u1"
                      THEN [has |-> TRUE, pending_images |-> pending,
                            message_to_edit |-> "Message"]
                      ELSE [has |-> FALSE, pending_images |-> <<>>,
                            message_to_edit |-> None]]
  /\ stats = ZeroStats
  /\ statsFile = NoFile
  /\ pc = [u \in Frames |-> IF u = "u1" THEN at ELSE "idle"]
  /\ running = None
  /\ up = [u \in Frames |-> IF u = "u1" THEN locals ELSE UpInit]
  /\ cb = [u \in Frames |-> CbInit]
  /\ obs = [u \in Frames |-> ObsInit]
  /\ produced = [images |-> 0, original |-> 0, converted |-> 0, loaded |-> stats]

\* handle_document has staged the one file of the archive doc, after the
\* user had pressed a format button `presses` times with nothing staged
StagedAfter(doc, presses) ==
  Staged(1, presses, Put(EmptyMap, 2, (CHOOSE e \in doc.entries : TRUE).bytes),
         << <<2, Str_a_png>> >>, "doc_done", [UpInit EXCEPT !.doc = doc, !.path = 1])

\* The same, nothing else having happened.
StagedOne(doc) == StagedAfter(doc, 0)

\* handle_document has staged the one file of the archive doc and
\* handle_image a photo after it
StagedTwo(doc, photo) ==
  LET name == <<"i","m","a","g","e","_">> \o photo.file_unique_id \o <<".","j","p","g">>
  IN  Staged(2, 0,
             Put(Put(EmptyMap, 2, (CHOOSE e \in doc.entries : TRUE).bytes),
                 1, photo.bytes),
             << <<2, Str_a_png>>, <<1, name>> >>, "img_done",
             [UpInit EXCEPT !.path = 1, !.bytes = photo.bytes, !.name = name])

\* One image of any colour mode is staged; the user converts it to any
\* format.
InitModes == \E m \in Modes : StagedOne(OneImageArchive(m))

NextModes ==
  \/ Tick
  \/ ButtonHandlers(OneUser, FormatNames)

SpecModes == InitModes /\ [][NextModes]_vars

\* The transport does not hold the events of one chat back: images are
\* staged for the first user, and photos, archives and format buttons of
\* that user arrive also while a handler of the user is suspended.
DuringFrames == { u \in Frames : Owner(u) = "u1" }
DuringFormats == {WEBP}
DuringDocuments == Documents({ Entry(Str_a_png, Bytes(2, TRUE, "LA")) })

\* two images are staged and no button was pressed yet; or one image is
\* staged, and all format buttons but one were pressed before it was
InitDuring ==
  \/ \E photo \in PhotoPool : StagedTwo(OneFileArchive(Bytes(2, TRUE, "LA")), photo)
  \/ StagedAfter(OneFileArchive(Bytes(2, TRUE, "LA")), MaxPress - 1)

NextDuring ==
  \/ Tick
  \/ ImageHandlers(DuringFrames, PhotoPool)
  \/ DocumentHandlers(DuringFrames, DuringDocuments)
  \/ ButtonHandlers(DuringFrames, DuringFormats)

SpecDuring == InitDuring /\ [][NextDuring]_vars

\* One file named as an image is staged: empty, undecodable, or an image of
\* one to three bytes; the user converts it.
SizePool ==
  { Bytes(0, FALSE, ""), Bytes(2, FALSE, ""),
    Bytes(1, TRUE, "RGB"), Bytes(2, TRUE, "RGB"), Bytes(3, TRUE, "RGB") }

InitSizes == \E b \in SizePool : StagedOne(OneFileArchive(b))

NextSizes ==
  \/ Tick
  \/ ButtonHandlers(OneUser, {JPEG, PNG, WEBP})

SpecSizes == InitSizes /\ [][NextSizes]_vars

\* One user sends archives of every kind; nothing is converted.
DocEntryPool ==
  { e \in EntryPool : e.name \in {Str_c_txt, Str_d, Str_d_e, Str_g, Str_h_Tiff} }

NextDocs ==
  \/ Tick
  \/ DocumentHandlers(OneUser, Documents(DocEntryPool))

SpecDocs == Init /\ [][NextDocs]_vars

(***************************************************************************)
(* Properties.                                                             *)
(***************************************************************************)
\* the temporary names of the images in pending_files_data
BatchPaths(u) == { it[1] : it \in Range(pending_files_data(u)) }

\* button_callback of u has ended after it found images to convert
BatchEnded(u) ==
  pc[u] = "cb_done" /\ obs[u].batch /= <<>>
    /\ obs[u].outcome \in {"completed", "critical"}

\* C1: once a batch on a non-empty session has ended, with the archive sent,
\* with nothing converted or with an exception caught at the top level of
\* button_callback, the session of the user is cleared: pending_images is
\* empty and message_to_edit is None.
C1_SessionCleared ==
  \A u \in Users :
    BatchEnded(u) =>
      /\ user_data[u].pending_images = <<>>
      /\ user_data[u].message_to_edit = None

\* C2: an item that fails never touches another item: from the moment an
\* item is converted until the archive has been packed and sent, the output
\* file of every ConversionResult exists and holds the bytes that were
\* written, wherever the failing item stands in the batch.
C2_FailuresContained ==
  \A u \in Users :
    pc[u] \in {"cb_loop", "cb_warn", "cb_progress", "cb_send"} =>
      \A k \in 1..Len(obs[u].results) :
        LET r == obs[u].results[k]
        IN /\ r.outputRef \in DOMAIN tmp
           /\ tmp[r.outputRef].size = r.convertedSize

\* C3: when button_callback has ended, on every exit path, none of the
\* temporary files of the batch exists any more: no staged input, no
\* converted output, no output archive.
C3_NoTemporaryFileLeft ==
  \A u \in Users :
    BatchEnded(u) =>
      /\ (BatchPaths(u) \cup obs[u].created) \cap DOMAIN tmp = {}
      /\ obs[u].stamps \cap DOMAIN zips = {}

\* every handler has ended
AllEnded == running = None /\ \A u \in Frames : Idle(u)

\* C4: whatever the interleaving of the batches of different users, once all
\* of them have ended the statistics have grown by exactly the number of
\* ConversionResults produced and by the sums of their sizes.
C4_NoLostUpdate ==
  AllEnded =>
    /\ stats.total_images = produced.loaded.total_images + produced.images
    /\ stats.total_size_original =
         produced.loaded.total_size_original + produced.original
    /\ stats.total_size_converted =
         produced.loaded.total_size_converted + produced.converted

\* C4 witness: two users have each ended a batch that produced a result,
\* one of them converted an item while the loop of the other was suspended,
\* and the sizes of the results differ.
C4_Witness ==
  /\ AllEnded
  /\ \A u \in Users : obs[u].results /= <<>> /\ pc[u] = "cb_done"
  /\ \E u \in Users : obs[u].overlap
  /\ produced.images >= 2
  /\ produced.original > produced.converted

\* the images counted in the periods of a dictionary of periods
PeriodImages(d) == SumMap([k \in DOMAIN d |-> d[k].images])

\* C5: from the zeroed structure, after any calls of update_conversion_stats
\* on any days and months, total_images equals the sum of the counts by
\* format, the sum of the images of the days and the sum of the images of
\* the months.
C5_CountersAgree ==
  /\ stats.total_images = SumMap(stats.conversions_by_format)
  /\ stats.total_images = PeriodImages(stats.daily_stats)
  /\ stats.total_images = PeriodImages(stats.monthly_stats)

\* C5 witness: three conversions recorded, in two formats, on two days and
\* in two months.
C5_Witness ==
  /\ stats.total_images = 3
  /\ Cardinality(DOMAIN stats.conversions_by_format) >= 2
  /\ Cardinality(DOMAIN stats.daily_stats) >= 2
  /\ Cardinality(DOMAIN stats.monthly_stats) >= 2

\* C6: with no item converted the user is told that nothing was converted
\* and no archive is ever written or sent; an archive is written and sent
\* only with at least one item converted.
C6_NoEmptyArchive ==
  \A u \in Users :
    /\ (obs[u].packed \/ obs[u].sent \/ pc[u] = "cb_send") => obs[u].results /= <<>>
    /\ (pc[u] = "cb_final" \/ obs[u].outcome = "completed") =>
         /\ obs[u].results = <<>> => (obs[u].nothing /\ ~obs[u].packed /\ ~obs[u].sent)
         /\ obs[u].results /= <<>> => (obs[u].sent /\ ~obs[u].nothing)

\* C6 witness: a batch of two items, both failed or skipped, has reached its
\* final status text after "nothing converted" was sent.
C6_Witness ==
  \E u \in Users :
    /\ pc[u] = "cb_final"
    /\ Len(obs[u].batch) >= 2
    /\ obs[u].results = <<>>
    /\ \E k \in 1..Len(obs[u].batch) : <<"error", k>> \in obs[u].log
    /\ obs[u].nothing

\* C7: the byte totals of the final summary are those of the converted
\* items: the original total is the sum of originalSize over the results and
\* the converted total the sum of convertedSize.
C7_SummaryFromResults ==
  \A u \in Users :
    obs[u].summary /= NoSummary =>
      /\ obs[u].summary.original =
           SumSeq([k \in 1..Len(obs[u].results) |-> obs[u].results[k].originalSize])
      /\ obs[u].summary.converted =
           SumSeq([k \in 1..Len(obs[u].results) |-> obs[u].results[k].convertedSize])

\* the members of an archive that are files with a supported image extension
ImageEntries(entries) ==
  { e \in entries : e.name[Len(e.name)] /= "/" /\ HasImageExtension(e.name) }

\* C8: once an archive has been extracted, the number of images appended to
\* pending_images is the number of its members that are no directory and
\* whose name ends in a supported extension, compared without case.
C8_StagesEveryImageEntry ==
  \A u \in Users :
    (pc[u] \in {"doc_status", "doc_status_reply", "doc_reply"} /\ up[u].doc.valid) =>
      Len(user_data[u].pending_images) - up[u].before
        = Cardinality(ImageEntries(up[u].doc.entries))

\* C9: for the target JPEG the image given to the encoder never has an
\* alpha channel or a palette.
C9_JpegInputOpaque ==
  \A u \in Users :
    \A e \in obs[u].encoded :
      e[1] = JPEG => e[2] \notin (AlphaModes \cup PaletteModes)

\* the step in which the write of the statistics file fails for u
SaveFails(u) ==
  /\ pc[u] = "cb_loop"
  /\ <<"save_error", cb[u].i>> \in obs'[u].log \ obs[u].log

\* C10: a write of the statistics file that fails is logged and swallowed:
\* in that very step the counters in memory are updated, the item gets its
\* ConversionResult, and the loop goes on (to the next item or to the
\* progress report), not to an except clause.
C10_SaveFailureSwallowed ==
  [][ \A u \in Users :
        SaveFails(u) =>
          /\ stats'.total_images = stats.total_images + 1
          /\ Len(obs'[u].results) = Len(obs[u].results) + 1
          /\ obs'[u].results[Len(obs'[u].results)].src = cb[u].i
          /\ pc'[u] \in {"cb_loop", "cb_progress"}
          /\ <<"error", cb[u].i>> \notin obs'[u].log ]_vars

\* C10 witness: a batch has ended with its archive sent although the write
\* of the statistics failed for one of its items, and a later item was
\* converted as well.
C10_Witness ==
  \E u \in Users :
    /\ pc[u] = "cb_done" /\ obs[u].outcome = "completed" /\ obs[u].sent
    /\ \E k \in 1..Len(obs[u].batch) :
         /\ <<"save_error", k>> \in obs[u].log
         /\ \E a, b \in 1..Len(obs[u].results) :
              obs[u].results[a].src = k /\ obs[u].results[b].src > k
    /\ stats.total_images >= Len(obs[u].results)
    /\ Len(obs[u].results) >= 2

\* C11: whatever the arguments, a caller whose id is not ADMIN_ID, and every
\* caller when ADMIN_ID is unset or empty, gets the refusal, which carries no
\* counter.
C11_OnlyAdminReadsCounters ==
  ( /\ reply.message.kind /= "none"
    /\ (ADMIN_ID = None \/ ADMIN_ID = <<>> \/ Str(reply.to) /= ADMIN_ID) )
    => /\ reply.message.kind = "refused"
       /\ DOMAIN reply.message = {"kind"}

\* C11 witness: with ADMIN_ID unset and conversions recorded, a caller asked
\* for today's counters and was refused.
C11_Witness ==
  /\ ADMIN_ID = None
  /\ stats.total_images >= 1
  /\ reply.to = 7 /\ reply.args = <<"today">>
  /\ reply.message = Refusal

\* a step of update_conversion_stats, seen from outside
RecordStep ==
  stats' /= stats \/ statsFile' /= statsFile \/ faults' /= faults

\* m is f with key k made (from zero) if absent and its value replaced by v
OnlyKeyChanged(f, m, k, v) ==
  /\ DOMAIN m = DOMAIN f \cup {k}
  /\ m[k] = v
  /\ \A x \in DOMAIN f \ {k} : m[x] = f[x]

\* the value at k, a missing key counting as zero
CountAt(f, k) == IF k \in DOMAIN f THEN f[k] ELSE 0
PeriodAt(d, k) == IF k \in DOMAIN d THEN d[k] ELSE ZeroPeriod

\* C18: one call of update_conversion_stats, sizes of 0 included, adds 1 to
\* total_images, to the count of its format and to the images of today and
\* of this month, adds its two sizes to the total, daily and monthly bytes,
\* and changes no other format, day or month.
C18_RecordFrame ==
  [][ RecordStep =>
        \E o \in RecordSizes, c \in RecordSizes, f \in RecordFormats,
           month \in {Month(clock), Month(clock')} :
          LET today == Today(clock)
              day == PeriodAt(stats.daily_stats, today)
              mon == PeriodAt(stats.monthly_stats, month)
          IN /\ stats'.total_images = stats.total_images + 1
             /\ stats'.total_size_original = stats.total_size_original + o
             /\ stats'.total_size_converted = stats.total_size_converted + c
             /\ OnlyKeyChanged(stats.conversions_by_format,
                               stats'.conversions_by_format, f,
                               CountAt(stats.conversions_by_format, f) + 1)
             /\ OnlyKeyChanged(stats.daily_stats, stats'.daily_stats, today,
                               [ images |-> day.images + 1,
                                 size_original |-> day.size_original + o,
                                 size_converted |-> day.size_converted + c ])
             /\ OnlyKeyChanged(stats.monthly_stats, stats'.monthly_stats, month,
                               [ images |-> mon.images + 1,
                                 size_original |-> mon.size_original + o,
                                 size_converted |-> mon.size_converted + c ]) ]_vars

\* C18 witness: images of no bytes were recorded, in two formats and on two
\* days, and they count.
C18_Witness ==
  /\ stats.total_images = 2
  /\ stats.total_size_original = 0 /\ stats.total_size_converted = 0
  /\ Cardinality(DOMAIN stats.conversions_by_format) = 2
  /\ Cardinality(DOMAIN stats.daily_stats) = 2
  /\ PeriodImages(stats.daily_stats) = 2

\* C19: a /stats of any scope leaves stats.stats and the statistics file as
\* they were (no entry is made for a day or month without data); two
\* overall queries with no update in between give the same text; a day or
\* month without data is reported as zeros.
C19_QueryReadOnly ==
  [][ reply' /= reply =>
        /\ stats' = stats /\ statsFile' = statsFile
        /\ ( /\ reply.read = stats
             /\ reply.message.kind = "all" /\ reply'.message.kind = "all" )
             => reply'.message = reply.message
        /\ ( \/ /\ reply'.message.kind = "today"
                /\ Today(clock) \notin DOMAIN stats.daily_stats
             \/ /\ reply'.message.kind = "month"
                /\ Month(clock) \notin DOMAIN stats.monthly_stats )
             => /\ reply'.message.images = 0
                /\ reply'.message.original = [tenths |-> 0, unit |-> "B"]
                /\ reply'.message.converted = [tenths |-> 0, unit |-> "B"]
                /\ reply'.message.saved = [tenths |-> 0, unit |-> "B"] ]_vars

\* C19 witness: after conversions on an earlier day the admin asked for
\* today's counters, got zeros, and stats.stats has no entry for today.
C19_Witness ==
  /\ stats.total_images >= 1
  /\ Today(clock) \notin DOMAIN stats.daily_stats
  /\ reply.message.kind = "today" /\ reply.message.images = 0
  /\ reply.read = stats

\* C12: when handle_document has ended for a document sent as a ZIP, on
\* every exit path (extracted, nothing to stage, malformed archive, failed
\* download), the file the archive was downloaded to no longer exists.
C12_SourceArchiveDeleted ==
  \A u \in Users :
    (pc[u] = "doc_done" /\ up[u].doc.mime_type = "application/zip") =>
      up[u].path \notin DOMAIN tmp

\* the kinds of log record that tell why an item has no result
SkipKinds == {"missing", "empty", "error", "no_output"}

\* C13: in every batch there are no more results than staged images, no
\* image has two results, and every image without a result was logged as
\* missing or empty, as failed, or as having no output: every image the loop
\* has gone past, and, once the batch has ended in whatever way, every image
\* of the batch.
C13_ResultsAccounted ==
  \A u \in Users :
    LET n == Len(obs[u].batch)
        results == obs[u].results
        accounted(k) ==
          \/ \E a \in 1..Len(results) : results[a].src = k
          \/ \E kind \in SkipKinds : <<kind, k>> \in obs[u].log
    IN /\ Len(results) <= n
       /\ \A a \in 1..Len(results) :
            /\ results[a].src \in 1..n
            /\ \A b \in 1..Len(results) : results[a].src = results[b].src => a = b
       /\ \A k \in 1..(cb[u].i - 1) : accounted(k)
       /\ BatchEnded(u) => \A k \in 1..n : accounted(k)

\* the last result of u after the step
NewResult(u) == obs'[u].results[Len(obs'[u].results)]

\* C14: the statistics are updated exactly once for each result and never
\* for a skipped or failed item; the update is made, and the whole
\* structure written to the file, in the handling of the very item, before
\* the next one starts, so that between two items the file holds the
\* counters of everything converted so far (a write that fails is logged,
\* and then the file does not).
C14_RecordedWithEachResult ==
  /\ [][ /\ \A u \in Users :
              (Len(obs'[u].results) > Len(obs[u].results)) =>
                /\ Len(obs'[u].results) = Len(obs[u].results) + 1
                /\ pc[u] = "cb_loop" /\ NewResult(u).src = cb[u].i
                /\ cb'[u].i <= cb[u].i + 1
                /\ stats'.total_images = stats.total_images + 1
                /\ stats'.total_size_original =
                     stats.total_size_original + NewResult(u).originalSize
                /\ stats'.total_size_converted =
                     stats.total_size_converted + NewResult(u).convertedSize
                /\ ( <<"save_error", cb[u].i>> \notin obs'[u].log =>
                       statsFile' = [state |-> "written", data |-> stats'] )
       /\ ( stats' /= stats =>
              \E v \in Users : Len(obs'[v].results) = Len(obs[v].results) + 1 ) ]_vars
  /\ [](faults = 0 =>
          /\ (stats.total_images > 0 => statsFile.state = "written")
          /\ (statsFile.state = "written" => statsFile.data = stats))

\* C14 witness: the bot started on the statistics file of an earlier run;
\* after the two items of a batch, the first failed and the second converted,
\* the file holds the counters, which count one image more than it did.
C14_Witness ==
  \E u \in Users :
    /\ pc[u] = "cb_loop" /\ cb[u].i = 3 /\ Len(obs[u].batch) = 2
    /\ Len(obs[u].results) = 1
    /\ <<"error", 1>> \in obs[u].log
    /\ produced.loaded = EarlierStats
    /\ stats.total_images = EarlierStats.total_images + 1
    /\ statsFile = [state |-> "written", data |-> stats]

\* the loop of u over a batch has handled every item
LoopOver(u) ==
  /\ obs[u].batch /= <<>>
  /\ cb[u].i > Len(obs[u].batch)
  /\ pc[u] \in {"cb_loop", "cb_send", "cb_nothing", "cb_final"}

\* a progress text for `count` items processed was put to status.edit_text
Reported(u, count) ==
  \E k \in 1..Len(obs[u].progress) : obs[u].progress[k].processed = count

\* C15: when the loop is over, progress was reported at every 5th
\* conversion, and at the last item of the batch when it was converted, with
\* the number of items processed so far.
C15_ProgressOnFifthAndFinal ==
  \A u \in Users :
    LoopOver(u) =>
      /\ \A a \in 1..Len(obs[u].results) : a % 5 = 0 => Reported(u, a)
      /\ (\E a \in 1..Len(obs[u].results) :
            obs[u].results[a].src = Len(obs[u].batch))
           => Reported(u, Len(obs[u].results))

\* the members are those of the results, one for one and in their order
InOrderOfResults(members, results) ==
  /\ Len(members) = Len(results)
  /\ \A k \in 1..Len(results) :
       /\ members[k].arcname = results[k].archiveName
       /\ members[k].bytes.size = results[k].convertedSize

\* C16: the results follow the order in which their images were staged, each
\* named after its own image, and the archive that is written and delivered
\* holds one member per result in that same order.
C16_OrderPreserved ==
  \A u \in Users :
    LET results == obs[u].results
    IN /\ \A a, b \in 1..Len(results) : a < b => results[a].src < results[b].src
       /\ \A a \in 1..Len(results) :
            results[a].archiveName =
              filename_in_zip(obs[u].batch[results[a].src][2], cb[u].target_format)
       /\ pc[u] = "cb_send" => InOrderOfResults(inodes[cb[u].zip_handle], results)
       /\ obs[u].sent => InOrderOfResults(obs[u].delivered, results)

\* C16 witness: two staged images were both converted, under different
\* names, and the archive delivered holds them in the order of staging.
C16_Witness ==
  \E u \in Users :
    /\ obs[u].sent /\ Len(obs[u].batch) = 2
    /\ Len(obs[u].delivered) = 2
    /\ obs[u].results[1].src = 1 /\ obs[u].results[2].src = 2
    /\ obs[u].delivered[1].arcname /= obs[u].delivered[2].arcname

\* C17: for WEBP and AVIF the image given to the encoder is in RGBA unless
\* the source was in RGB or RGBA, which stay as they are; for PNG, GIF, TIFF
\* and BMP it is in the mode of the source.
C17_AlphaTargetsNormalized ==
  \A u \in Users :
    \A e \in obs[u].encoded :
      /\ e[1] \in {WEBP, AVIF} =>
           e[2] = (IF e[3] \in {"RGB", "RGBA"} THEN e[3] ELSE "RGBA")
      /\ e[1] \in {PNG, GIF, TIFF, BMP} => e[2] = e[3]

\* C17 witness: a greyscale image with alpha was given to the AVIF encoder as
\* RGBA and converted.
C17_Witness ==
  \E u \in Users :
    /\ <<AVIF, "RGBA", "LA">> \in obs[u].encoded
    /\ Len(obs[u].results) = 1 /\ obs[u].sent

\* C20: the percentage of the final status text is 0 when the original
\* total is 0 and (original - converted) * 100 / original otherwise; the
\* text is built whenever the batch gets that far (the division never
\* raises), also when every item was skipped.
C20_PercentSafe ==
  \A u \in Users :
    LET s == cb[u].final_status_text
    IN /\ obs[u].nothing => s /= NoSummary
       /\ (obs[u].sent /\ cb[u].zip_output_path \notin DOMAIN zips) => s /= NoSummary
       /\ s /= NoSummary =>
            /\ s.percent.den /= 0
            /\ s.original = 0 => s.percent.num = 0
            /\ s.original /= 0 =>
                 s.percent.num * s.original
                   = (s.original - s.converted) * 100 * s.percent.den

\* C20 witness: the only item of a batch was skipped as empty; the user was
\* shown a summary of 0 of 1 processed, 0 bytes and 0 percent.
C20_Witness ==
  \E u \in Users :
    /\ <<"empty", 1>> \in obs[u].log
    /\ obs[u].outcome = "completed"
    /\ obs[u].summary.processed = 0 /\ obs[u].summary.total = 1
    /\ obs[u].summary.original = 0
    /\ obs[u].summary.percent = [num |-> 0, den |-> 1]

\* C21: each staged image is recorded in the statistics at most once, also
\* when the user chooses a format again after a batch that ended with the
\* critical-error message: total_images never exceeds the number of distinct
\* staged images that were converted, which is at most the number of images
\* staged so far (total_images is counted from what load_stats returned).
C21_RecordedAtMostOnce ==
  stats.total_images - produced.loaded.total_images <= nStaged

\* the files a reader finds after extracting an archive: one per member
\* name, holding the bytes of the last member written under that name
Extract(members) ==
  { members[k] : k \in { j \in 1..Len(members) :
                           \A h \in (j + 1)..Len(members) :
                             members[h].arcname /= members[j].arcname } }

\* C22: the archive delivered for a batch round-trips: extracting it yields
\* exactly len(results) files, one per result, under that result's name and
\* with that result's bytes; the member names of one batch are pairwise
\* distinct.
C22_ArchiveRoundTrips ==
  \A u \in Users :
    obs[u].sent =>
      LET files == Extract(obs[u].delivered)
          results == obs[u].results
      IN /\ Cardinality(files) = Len(results)
         /\ \A k \in 1..Len(results) :
              \E f \in files : /\ f.arcname = results[k].archiveName
                               /\ f.bytes.size = results[k].convertedSize
         /\ \A j, k \in 1..Len(results) :
              results[j].archiveName = results[k].archiveName => j = k

\* the members are those of the results, one for one and in their order
MembersOf(members, results) ==
  /\ Len(members) = Len(results)
  /\ \A k \in 1..Len(results) :
       /\ members[k].arcname = results[k].archiveName
       /\ members[k].bytes.size = results[k].convertedSize

\* C23: batches of different users share no temporary storage: while a user
\* waits for send_document, the archive file of the batch is still there
\* and still holds that batch's results, whatever the other users' batches
\* pack, send or clean up; and the archive a user receives holds exactly
\* that user's results.
C23_NoSharedArchive ==
  \A u \in Users :
    /\ pc[u] = "cb_send" =>
         /\ cb[u].zip_output_path \in DOMAIN zips
         /\ MembersOf(inodes[zips[cb[u].zip_output_path]], obs[u].results)
    /\ obs[u].sent => MembersOf(obs[u].delivered, obs[u].results)

\* the awaits of a batch that the claim names: the status message, the
\* replies and progress edits of the loop, the archive send, the replies
\* and the status edit after it
BatchAwaits ==
  {"cb_status", "cb_warn", "cb_progress", "cb_send", "cb_nothing", "cb_final"}

\* C24: an image staged for a user while a batch of that user is suspended
\* is not silently dropped: once the batch has ended the image has a result
\* in it, or was logged by it as skipped or failed, or is still in
\* pending_images with its staged file intact.
C24_StagedDuringBatchKept ==
  \A a \in Frames : \A b \in Frames \ {a} :
    LET l == up[b]
        item == <<l.path, l.name>>
        list == pending_files_data(a)
    IN (/\ \E at \in BatchAwaits : <<a, at>> \in l.beside
        /\ l.press = nPress
        /\ pc[a] = "cb_done")
       =>
       \/ \E k \in 1..Len(obs[a].results) :
            /\ obs[a].results[k].src \in 1..Len(list)
            /\ list[obs[a].results[k].src] = item
       \/ \E kind \in SkipKinds : \E j \in 1..Len(list) :
            <<kind, j>> \in obs[a].log /\ list[j] = item
       \/ /\ item \in Range(user_data[Owner(a)].pending_images)
          /\ l.path \in DOMAIN tmp
          /\ tmp[l.path] = l.bytes

====
